---- MODULE Spec2Model ----
(***************************************************************************)
(* PowerBot (src/powerbot.go, the JSON-API variant at lines 332-782): a    *)
(* short-lived process that fetches the outage page, parses the sections   *)
(* of today and tomorrow, compares them with the days kept in the state    *)
(* file, posts a Telegram message for a new or changed day and writes the  *)
(* pruned state back through a temporary file and a rename.                *)
(*                                                                         *)
(* Representation.  A time.Time is [day, hour]: day is the ordinal of the  *)
(* UTC date within 2025 (0 = 1 January), hour the UTC hour.  A date string *)
(* "2006-01-02" is the tuple <<y, m, d>>, a header date "02.01.2006" the   *)
(* tuple <<d, m, y>>, a "02.01" string the tuple <<d, m>>.  A text is a    *)
(* sequence of tokens separated by single spaces; a token is a word or an  *)
(* "HH:MM" clock reading.  Ukrainian words are written transliterated.     *)
(***************************************************************************)
EXTENDS Integers, Sequences, FiniteSets, TLC

\* ---------------------------------------------------------------- bounds
\* Number of days the clock may advance past FirstDay.
MaxDay == 1
\* Number of write(2) calls os.WriteFile needs for one document.
WriteChunks == 2

\* 2025-02-28 as an ordinal of 2025: the month changes inside the window.
FirstDay == 31 + 27

\* ------------------------------------------------------------- constants
groupWater == "Hrupa 4.1"
groupPower == "Hrupa 6.1"
labelWater == "*voda*"
labelPower == "*svitlo*"
StatePath == <<"state.json">>
\* UTC offset of Europe/Kyiv in hours outside summer time.
KyivOffset == 2

\* The tracked groups in the order every loop of the program visits them.
TrackedGroups == <<groupPower, groupWater>>
Groups == {groupPower, groupWater}

\* ------------------------------------------------------------ time, dates
MonthLen == <<31, 28, 31, 30, 31, 30, 31, 31, 30, 31, 30, 31>>

RECURSIVE MonthDay(_, _)
MonthDay(n, m) ==
    IF m = 12 \/ n < MonthLen[m] THEN <<m, n + 1>> ELSE MonthDay(n - MonthLen[m], m + 1)

\* t.In(loc): the civil date and hour of instant t in Europe/Kyiv.
InKyiv(t) ==
    IF t.hour + KyivOffset >= 24
    THEN [day |-> t.day + 1, hour |-> t.hour + KyivOffset - 24]
    ELSE [day |-> t.day, hour |-> t.hour + KyivOffset]

\* t.Truncate(24 * time.Hour): rounds the absolute instant down to a multiple
\* of 24h since the zero time, which is a UTC midnight.
Truncate24h(t) == [day |-> t.day, hour |-> 0]

\* t.AddDate(0, 0, k)
AddDays(t, k) == [day |-> t.day + k, hour |-> t.hour]

\* t.Format("2006-01-02") of an instant shown in Europe/Kyiv
FormatISO(t) ==
    LET md == MonthDay(InKyiv(t).day, 1) IN <<2025, md[1], md[2]>>

\* t.Format("02.01.2006") of an instant shown in Europe/Kyiv
FormatTitle(t) ==
    LET md == MonthDay(InKyiv(t).day, 1) IN <<md[2], md[1], 2025>>

\* main, lines 377-379: today and tomorrow
datesToCheck(now) ==
    LET today == Truncate24h(now) IN <<today, AddDays(today, 1)>>

\* toDM: time.Parse("2006-01-02") then Format("02.01"); a string that does
\* not parse gives the zero time, 01.01.
toDM(date) == IF Len(date) = 3 THEN <<date[3], date[2]>> ELSE <<1, 1>>

\* ------------------------------------------------------------------ texts
W(s) == [w |-> s, h |-> 0, m |-> 0]
Clock(h, m) == [w |-> "HH:MM", h |-> h, m |-> m]
IsClock(tok) == tok.w = "HH:MM"

Dash == W("--")
Period == W(".")
PowerIsOn == <<W("Elektroenerhiia"), W("ie")>>
NoOutage == <<W("bude!!!!")>>
NoData == <<W("n/d")>>

\* strings.Contains(s, sub)
Contains(s, sub) ==
    \E i \in 1..(Len(s) - Len(sub) + 1) : SubSeq(s, i, i + Len(sub) - 1) = sub

normalizeText(s) ==
    LET s1 == IF Len(s) > 0 /\ s[1] = Dash THEN Tail(s) ELSE s
    IN  IF Contains(s1, PowerIsOn) THEN NoOutage
        ELSE IF Len(s1) > 0 /\ s1[Len(s1)] = Period THEN SubSeq(s1, 1, Len(s1) - 1)
        ELSE s1

\* time.Parse("15:04", "HH:MM") as minutes since 0000-01-01 00:00; a reading
\* that is no time of day gives the zero time 0001-01-01, 366 days later.
ParseClock(tok) ==
    IF tok.h <= 23 /\ tok.m <= 59 THEN tok.h * 60 + tok.m ELSE 366 * 24 * 60

\* positions where "z HH:MM do HH:MM" matches
RangeAt(text) ==
    {i \in 1..(Len(text) - 3) :
        /\ text[i] = W("z")
        /\ IsClock(text[i + 1])
        /\ text[i + 2] = W("do")
        /\ IsClock(text[i + 3])}

Minimum(S) == CHOOSE x \in S : \A y \in S : x <= y

outageMinutes(text) ==
    IF RangeAt(text) = {} THEN 0
    ELSE LET i == Minimum(RangeAt(text))
         IN  ParseClock(text[i + 3]) - ParseClock(text[i + 1])

\* ------------------------------------------------------- page extraction
\* A page body is a sequence of date sections; a section is the header date
\* and, in page order, the group labels with the sentence that follows each.
NoText == <<>>

\* extractSection: the content after the first header carrying dateTitle, up
\* to the next header; "" when no header carries it.
extractSection(body, dateTitle) ==
    LET hits == {i \in 1..Len(body) : body[i].title = dateTitle}
    IN  IF hits = {} THEN <<>> ELSE body[Minimum(hits)].entries

\* extractGroup: the sentence after the first occurrence of the label; ""
\* when the label does not occur.
extractGroup(section, group) ==
    LET hits == {i \in 1..Len(section) : section[i].label = group}
    IN  IF hits = {} THEN NoText ELSE section[Minimum(hits)].frag

\* parsePage, lines 562-578: the groups map of one section
RECURSIVE parseGroups(_, _, _)
parseGroups(section, k, groups) ==
    IF k > Len(TrackedGroups) THEN groups
    ELSE LET g == TrackedGroups[k]
             txt == extractGroup(section, g)
             norm == normalizeText(txt)
             mins == outageMinutes(norm)
         IN  IF txt = NoText THEN parseGroups(section, k + 1, groups)
             ELSE parseGroups(section, k + 1,
                              [x \in DOMAIN groups \cup {g} |->
                                  IF x = g THEN [Text |-> norm, Minutes |-> mins]
                                  ELSE groups[x]])

\* parsePage, lines 543-583: one DayInfo per date whose section has a group
RECURSIVE parsePage(_, _, _, _)
parsePage(body, dates, k, out) ==
    IF k > Len(dates) THEN out
    ELSE LET d == dates[k]
             section == extractSection(body, FormatTitle(d))
             groups == parseGroups(section, 1, <<>>)
         IN  IF section = <<>> \/ DOMAIN groups = {}
             THEN parsePage(body, dates, k + 1, out)
             ELSE parsePage(body, dates, k + 1,
                            Append(out, [Date |-> FormatISO(d), Groups |-> groups]))

\* --------------------------------------------------------- content source
\* loadContent returning the fixture's bytes without looking at the read error.
loadContentIgnoringReadError(env) ==
    IF env.testFile THEN [body |-> env.fixture.body, err |-> FALSE]
    ELSE IF env.http.kind # "200" THEN [body |-> <<>>, err |-> TRUE]
    ELSE IF ~env.http.json THEN [body |-> <<>>, err |-> TRUE]
    ELSE LET hits == {i \in 1..Len(env.http.items) : env.http.items[i] # <<>>}
         IN  IF hits = {} THEN [body |-> <<>>, err |-> TRUE]
             ELSE [body |-> env.http.items[Minimum(hits)], err |-> FALSE]

\* loadContent: env.testFile is POWERBOT_TEST_FILE being set, env.fixture the
\* outcome of reading it, env.http the outcome of the GET.
loadContent(env) ==
    IF env.testFile
    THEN IF env.fixture.ok THEN [body |-> env.fixture.body, err |-> FALSE]
         ELSE [body |-> <<>>, err |-> TRUE]
    ELSE IF env.http.kind # "200" THEN [body |-> <<>>, err |-> TRUE]
    ELSE IF ~env.http.json THEN [body |-> <<>>, err |-> TRUE]
    ELSE LET hits == {i \in 1..Len(env.http.items) : env.http.items[i] # <<>>}
         IN  IF hits = {} THEN [body |-> <<>>, err |-> TRUE]
             ELSE [body |-> env.http.items[Minimum(hits)], err |-> FALSE]

\* ------------------------------------------------------------- state file
\* A file is absent or holds the first `written` of WriteChunks pieces of a
\* document (all of them unless a write was cut short).  A document is garbage (no JSON syntax) or a JSON object with a
\* "days" array; a "minutes" member is a JSON number or a value of another
\* type.
NoDoc == [syntax |-> FALSE, days |-> <<>>]
NoFile == [exists |-> FALSE, doc |-> NoDoc, written |-> 0]
FileOf(doc) == [exists |-> TRUE, doc |-> doc, written |-> WriteChunks]
Complete(f) == f.exists /\ f.written = WriteChunks

\* The file after n pieces of doc were written to it: a proper prefix of a
\* document is no document, and all prefixes of one length are taken as one.
Written(doc, n) ==
    [exists |-> TRUE, doc |-> IF n = WriteChunks THEN doc ELSE NoDoc, written |-> n]

JNum(n) == [num |-> TRUE, v |-> n]
JNotNum == [num |-> FALSE, v |-> 0]

\* json.MarshalIndent(st, "", "  ")
Marshal(st) ==
    [syntax |-> TRUE,
     days |-> [i \in 1..Len(st) |->
                 [date |-> st[i].Date,
                  groups |-> [g \in DOMAIN st[i].Groups |->
                                [text |-> st[i].Groups[g].Text,
                                 minutes |-> JNum(st[i].Groups[g].Minutes)]]]]]

\* Length in bytes of the UTF-8 text a token stands for: a clock reading has
\* five ASCII characters, a Cyrillic letter takes two bytes, the dash three.
WordLen ==
    "--" :> 3 @@ "." :> 1 @@ "n/d" :> 2 + 1 + 2 @@ "bude!!!!" :> 4 * 2 + 4
    @@ "Elektroenerhiia" :> 14 * 2 @@ "Elektroenerhii" :> 14 * 2 @@ "ie" :> 2
    @@ "nemaie" :> 5 * 2 @@ "Vody" :> 4 * 2 @@ "z" :> 2 @@ "do" :> 2 * 2
TokenLen(tok) == IF IsClock(tok) THEN 5 ELSE WordLen[tok.w]

\* Length in bytes of a text: its tokens and the spaces between them.
RECURSIVE TextLen(_)
TextLen(text) ==
    IF Len(text) = 0 THEN 0
    ELSE IF Len(text) = 1 THEN TokenLen(text[1])
    ELSE TokenLen(text[1]) + 1 + TextLen(Tail(text))

\* Length of a group name, "Hrupa" in Cyrillic, a space and "N.N".
KeyLen(g) == 5 * 2 + 1 + 3

\* Number of characters strconv gives an int.
RECURSIVE DecLen(_)
DecLen(n) ==
    IF n < 0 THEN 1 + DecLen(0 - n)
    ELSE IF n < 10 THEN 1
    ELSE 1 + DecLen(n \div 10)

\* Sum of the values a function takes on a finite set.
RECURSIVE SumOver(_, _)
SumOver(S, f) ==
    IF S = {} THEN 0
    ELSE LET x == CHOOSE y \in S : TRUE IN f[x] + SumOver(S \ {x}, f)

\* len(json.MarshalIndent(st, "", "  ")): every member on a line of its own,
\* indented by two spaces per level; a nil Days slice is written as null and
\* an empty Groups map as {}.
MarshalLen(st) ==
    LET group(day) ==
            LET one == [g \in DOMAIN day.Groups |->
                           (8 + 1 + KeyLen(g) + 5)
                           + (10 + 8 + 1 + TextLen(day.Groups[g].Text) + 3)
                           + (10 + 11 + DecLen(day.Groups[g].Minutes) + 1)
                           + 9]
                n == Cardinality(DOMAIN day.Groups)
            IN  IF n = 0 THEN 2
                ELSE 2 + SumOver(DOMAIN day.Groups, one) + 2 * (n - 1) + 8
        oneDay == [i \in 1..Len(st) |->
                     6 + (6 + 8 + 12 + 2) + (6 + 10) + group(st[i]) + 6]
    IN  IF Len(st) = 0 THEN 2 + 10 + 4 + 2
        ELSE 2 + 10 + 2 + SumOver(1..Len(st), oneDay) + 2 * (Len(st) - 1) + 4 + 2

\* json.Unmarshal into State: a syntax error leaves the value untouched; a
\* member of the wrong type is skipped (its field keeps the zero value), the
\* rest is decoded and the first such error is returned.
Unmarshal(doc) ==
    IF ~doc.syntax THEN [st |-> <<>>, err |-> TRUE]
    ELSE [st |-> [i \in 1..Len(doc.days) |->
                    [Date |-> doc.days[i].date,
                     Groups |-> [g \in DOMAIN doc.days[i].groups |->
                                   [Text |-> doc.days[i].groups[g].text,
                                    Minutes |-> IF doc.days[i].groups[g].minutes.num
                                                THEN doc.days[i].groups[g].minutes.v
                                                ELSE 0]]]],
          err |-> \E i \in 1..Len(doc.days) : \E g \in DOMAIN doc.days[i].groups :
                      ~doc.days[i].groups[g].minutes.num]

\* loadState: os.ReadFile then json.Unmarshal; returns the value and the error
loadState(f) ==
    IF ~f.exists THEN [st |-> <<>>, err |-> TRUE]
    ELSE IF ~Complete(f) THEN [st |-> <<>>, err |-> TRUE]
    ELSE Unmarshal(f.doc)

\* saveState writing the document straight to the target path.
TmpPathIsTarget(path) == path

\* saveState, line 658: tmp := path + ".tmp"
TmpPath(path) == path \o <<".tmp">>

Paths == {StatePath, TmpPath(StatePath)}

\* ------------------------------------------------------------ state, diff
\* findDay comparing the stored date with the day and month only.
findDayByDayMonth(st, date) ==
    LET hits == {i \in 1..Len(st) : st[i].Date = toDM(date)}
    IN  IF hits = {} THEN 0 ELSE Minimum(hits)

\* findDay: index of the first day with that date, 0 for nil
findDay(st, date) ==
    LET hits == {i \in 1..Len(st) : st[i].Date = date}
    IN  IF hits = {} THEN 0 ELSE Minimum(hits)

\* upsertDay appending the day without looking for its date.
upsertDayAlwaysAppend(st, day) == Append(st, day)

upsertDay(st, day) ==
    LET i == findDay(st, day.Date)
    IN  IF i # 0 THEN [st EXCEPT ![i] = day] ELSE Append(st, day)

\* keepLastTwo keeping the reference dates only, without the day before.
keepRefsOnly(st, refs) ==
    LET cutoff == {FormatISO(refs[k]) : k \in 1..Len(refs)}
        keep(d) == d.Date \in cutoff
    IN  SelectSeq(st, keep)

keepLastTwo(st, refs) ==
    LET cutoff == {FormatISO(refs[k]) : k \in 1..Len(refs)}
                  \cup {FormatISO(AddDays(refs[k], -1)) : k \in 1..Len(refs)}
        keep(d) == d.Date \in cutoff
    IN  SelectSeq(st, keep)

\* old.Groups[g] with the comma-ok flag: the zero GroupInfo when missing
ZeroGroup == [Text |-> NoText, Minutes |-> 0]
Lookup(day, g) ==
    IF g \in DOMAIN day.Groups THEN [v |-> day.Groups[g], ok |-> TRUE]
    ELSE [v |-> ZeroGroup, ok |-> FALSE]

RECURSIVE compareLoop(_, _, _, _)
compareLoop(old, cur, k, acc) ==
    IF k > Len(TrackedGroups) THEN acc
    ELSE LET g == TrackedGroups[k]
             o == Lookup(old, g)
             n == Lookup(cur, g)
         IN  IF ~n.ok /\ ~o.ok THEN compareLoop(old, cur, k + 1, acc)
             ELSE IF ~o.ok \/ ~n.ok \/ o.v.Text # n.v.Text
             THEN compareLoop(old, cur, k + 1,
                              [changed |-> TRUE,
                               more |-> acc.more \/ n.v.Minutes > o.v.Minutes])
             ELSE compareLoop(old, cur, k + 1, acc)

\* compareDay that also takes a different duration for a change.
RECURSIVE compareLoopMinutes(_, _, _, _)
compareLoopMinutes(old, cur, k, acc) ==
    IF k > Len(TrackedGroups) THEN acc
    ELSE LET g == TrackedGroups[k]
             o == Lookup(old, g)
             n == Lookup(cur, g)
         IN  IF ~n.ok /\ ~o.ok THEN compareLoopMinutes(old, cur, k + 1, acc)
             ELSE IF ~o.ok \/ ~n.ok \/ o.v # n.v
             THEN compareLoopMinutes(old, cur, k + 1,
                                     [changed |-> TRUE,
                                      more |-> acc.more \/ n.v.Minutes > o.v.Minutes])
             ELSE compareLoopMinutes(old, cur, k + 1, acc)

compareDayMinutes(old, cur) ==
    compareLoopMinutes(old, cur, 1, [changed |-> FALSE, more |-> FALSE])

\* compareDay that reports more whenever a duration grew, changed text or not.
RECURSIVE compareLoopAnyGrowth(_, _, _, _)
compareLoopAnyGrowth(old, cur, k, acc) ==
    IF k > Len(TrackedGroups) THEN acc
    ELSE LET g == TrackedGroups[k]
             o == Lookup(old, g)
             n == Lookup(cur, g)
         IN  IF ~n.ok /\ ~o.ok THEN compareLoopAnyGrowth(old, cur, k + 1, acc)
             ELSE compareLoopAnyGrowth(old, cur, k + 1,
                      [changed |-> acc.changed \/ ~o.ok \/ ~n.ok \/ o.v.Text # n.v.Text,
                       more |-> acc.more \/ n.v.Minutes > o.v.Minutes])

compareDayAnyGrowth(old, cur) ==
    compareLoopAnyGrowth(old, cur, 1, [changed |-> FALSE, more |-> FALSE])

compareDay(old, cur) == compareLoop(old, cur, 1, [changed |-> FALSE, more |-> FALSE])

\* main, lines 423-452: the State after the loop over the parsed days
RECURSIVE Merged(_, _, _)
Merged(state, days, k) ==
    IF k > Len(days) THEN state
    ELSE LET i == findDay(state, days[k].Date)
         IN  IF i = 0 \/ compareDay(state[i], days[k]).changed
             THEN Merged(upsertDay(state, days[k]), days, k + 1)
             ELSE Merged(state, days, k + 1)

\* ---------------------------------------------------------------- message
formatLine(day, group, label) ==
    IF group \in DOMAIN day.Groups
    THEN [label |-> label, text |-> day.Groups[group].Text]
    ELSE [label |-> label, text |-> NoData]

TitleNew == "hrafik na"
TitleBad == "upd. (bad) na"
TitleGood == "upd. (good) na"

\* postSchedule with the two update titles exchanged.
postScheduleSwapped(day, isUpdate, more) ==
    [title |-> [head |-> IF ~isUpdate THEN TitleNew
                         ELSE IF more THEN TitleGood ELSE TitleBad,
                dm |-> toDM(day.Date)],
     lines |-> <<formatLine(day, groupPower, labelPower),
                 formatLine(day, groupWater, labelWater)>>]

\* postSchedule, lines 724-736: the message handed to sendTelegram
postSchedule(day, isUpdate, more) ==
    [title |-> [head |-> IF ~isUpdate THEN TitleNew
                         ELSE IF more THEN TitleBad ELSE TitleGood,
                dm |-> toDM(day.Date)],
     lines |-> <<formatLine(day, groupPower, labelPower),
                 formatLine(day, groupWater, labelWater)>>]

\* ----------------------------------------------------------------- inputs
\* Sentences the page may carry after a group label.
FragOn == <<Dash, W("Elektroenerhiia"), W("ie"), Period>>
FragDay == <<W("Elektroenerhii"), W("nemaie"), W("z"), Clock(14, 0), W("do"),
             Clock(16, 30), Period>>
FragNight == <<W("Vody"), W("nemaie"), W("z"), Clock(22, 0), W("do"), Clock(2, 0),
               Period>>
Entry(g, frag) == <<[label |-> g, frag |-> frag]>>

\* What a date section may hold: nothing, or sentences for the tracked groups.
SectionBodies ==
    {<<>>,
     Entry(groupPower, FragDay),
     Entry(groupPower, FragOn) \o Entry(groupWater, FragNight)}

\* Sections of the page written for the dates of `now`: today and tomorrow.
Sections(now) ==
    {[title |-> FormatTitle(d), entries |-> e] :
        d \in {datesToCheck(now)[1], datesToCheck(now)[2]}, e \in SectionBodies}

\* Pages: no section, one section, or the sections of two dates in either
\* order.
Pages(now) ==
    {<<>>}
    \cup {<<a>> : a \in Sections(now)}
    \cup {q \in {<<a, b>> : a \in Sections(now), b \in Sections(now)} :
             q[1].title # q[2].title}

NoHttp == [kind |-> "unused", json |-> FALSE, items |-> <<>>]
NoFixture == [ok |-> FALSE, body |-> <<>>]

\* What the content provider can answer.
Envs(now) ==
    {[testFile |-> TRUE, fixture |-> NoFixture, http |-> NoHttp]}
    \cup {[testFile |-> TRUE, fixture |-> [ok |-> TRUE, body |-> b], http |-> NoHttp] :
            b \in Pages(now)}
    \cup {[testFile |-> FALSE, fixture |-> NoFixture,
           http |-> [kind |-> k, json |-> FALSE, items |-> <<>>]] :
            k \in {"network error", "500", "200"}}
    \cup {[testFile |-> FALSE, fixture |-> NoFixture,
           http |-> [kind |-> "200", json |-> TRUE, items |-> it]] :
            it \in {<<>>, << <<>> >>} \cup {<< <<>>, <<x>> >> : x \in Sections(now)}}

\* POWERBOT_TOKEN and POWERBOT_CHAT_ID: both set, or one of them empty.
Credentials ==
    {[token |-> TRUE, chat |-> TRUE], [token |-> FALSE, chat |-> TRUE],
     [token |-> TRUE, chat |-> FALSE]}

\* Why the fetch of env fails, "" when it delivers a body.
FetchFailure(env) ==
    IF env.testFile THEN (IF env.fixture.ok THEN "" ELSE "missing fixture")
    ELSE IF env.http.kind = "network error" THEN "network error"
    ELSE IF env.http.kind # "200" THEN "status"
    ELSE IF ~env.http.json THEN "not JSON"
    ELSE IF \A i \in 1..Len(env.http.items) : env.http.items[i] = <<>> THEN "no rawHtml"
    ELSE ""

\* State files the first run may find.
OldDay(n, g, text, minutes) ==
    [date |-> FormatISO([day |-> n, hour |-> 0]),
     groups |-> (g :> [text |-> text, minutes |-> minutes])]
InitFiles ==
    {NoFile,
     FileOf(NoDoc),
     FileOf([syntax |-> TRUE, days |-> <<>>]),
     FileOf([syntax |-> TRUE,
             days |-> <<OldDay(FirstDay, groupPower, NoOutage, JNotNum)>>]),
     FileOf([syntax |-> TRUE,
             days |-> <<OldDay(FirstDay - 2, groupPower, NoOutage, JNum(0)),
                        OldDay(FirstDay - 1, groupWater, <<W("nemaie")>>, JNum(90))>>])}

\* ------------------------------------------------------------------ state
VARIABLES
    now,      \* time.Now()
    fs,       \* the files at StatePath and TmpPath(StatePath)
    pc,       \* where the process is: "idle" when it is not running
    refs,     \* datesToCheck
    creds,    \* token != "" && chatID != ""
    parsed,   \* parsePage's result
    st,       \* the State held by main
    idx,      \* index of the next parsed day of the loop at lines 423-452
    sent,     \* sendTelegram calls of this run: day, message, delivered
    fetch,    \* FetchFailure of this run's content provider answer
    loaded,   \* what loadState returned to this run, and whether it was called
    file0,    \* the state file when this run started
    outcome,  \* how the run ended
    prev,     \* the run that completed before this one, when it began with an
              \* empty State, parsed one day and saved
    crash,    \* the process was killed and has not run since: at which step,
              \* with which file0
    cmp,      \* one application of compareDay: its arguments and its result
    procs,    \* two overlapping invocations: where each is, the State it
              \* saves, the file it has open, how its save ended
    disk,     \* the directory they share: which file each path names, and
              \* the content of each file
    renames   \* the invocations whose os.Rename succeeded, in that order

run == <<now, fs, pc, refs, creds, parsed, st, idx, sent, fetch, loaded, file0,
         outcome, prev, crash>>
\* Variables of the specifications that apply one function to drawn inputs.
overlap == <<procs, disk, renames>>
pure == <<cmp, overlap>>
vars == <<run, pure>>

NotLoaded == [st |-> <<>>, err |-> FALSE, called |-> FALSE]
NoPrev == [refs |-> <<>>, parsed |-> <<>>]
NoCrash == [at |-> "", file0 |-> NoFile]
NoDay == [Date |-> <<>>, Groups |-> <<>>]
NotCompared == [old |-> NoDay, cur |-> NoDay, done |-> FALSE,
                out |-> [changed |-> FALSE, more |-> FALSE]]

\* A file's content is a sequence of segments; a segment is the bytes after
\* the first `from` up to byte `to` of the text json.MarshalIndent gives for
\* a State.
Segment(state, from, to) == [st |-> state, from |-> from, to |-> to]
BytesOf(state) == <<Segment(state, 0, MarshalLen(state))>>

\* Directory entries name a file by number: 0 is the state file the first
\* invocation finds, p the file invocation p created.
Procs == {1, 2}
Absent == 0 - 1
NoProc == [pc |-> "idle", st |-> <<>>, fd |-> Absent, outcome |-> ""]
NoDisk == [dir |-> [p \in Paths |-> Absent], ino |-> [i \in {0} \cup Procs |-> <<>>]]

\* No second invocation is around.
NoOverlap ==
    /\ procs = [p \in Procs |-> NoProc]
    /\ disk = NoDisk
    /\ renames = <<>>

Fresh ==
    /\ refs = <<>>
    /\ creds = FALSE
    /\ parsed = <<>>
    /\ st = <<>>
    /\ idx = 0
    /\ sent = <<>>
    /\ fetch = ""
    /\ loaded = NotLoaded
    /\ outcome = ""

\* The variables of a run as a process finds them when it starts.
ResetRun ==
    /\ refs' = <<>>
    /\ creds' = FALSE
    /\ parsed' = <<>>
    /\ st' = <<>>
    /\ idx' = 0
    /\ sent' = <<>>
    /\ fetch' = ""
    /\ loaded' = NotLoaded
    /\ outcome' = ""

\* The process is not running, the state file is f and the clock shows t.
InstalledAt(f, t) ==
    /\ now = t
    /\ fs = [p \in Paths |-> IF p = StatePath THEN f ELSE NoFile]
    /\ pc = "idle"
    /\ Fresh
    /\ file0 = f
    /\ prev = NoPrev
    /\ crash = NoCrash

\* The same at nine in the morning UTC of the first day.
Installed(f) == InstalledAt(f, [day |-> FirstDay, hour |-> 9])

Init ==
    /\ \E f \in InitFiles : Installed(f)
    /\ cmp = NotCompared
    /\ NoOverlap

\* ---------------------------------------------------------------- actions
\* main, lines 377-421: reference dates, fetch, parse, then the state load.
\* A fetch error returns before the state file is read.
Start(env, token, chat) ==
    /\ pc = "idle"
    /\ LET dates == datesToCheck(now)
           res == loadContent(env)
           ld == loadState(fs[StatePath])
       IN  /\ refs' = dates
           /\ fetch' = FetchFailure(env)
           /\ file0' = fs[StatePath]
           /\ creds' = (token /\ chat)
           /\ sent' = <<>>
           /\ IF res.err
              THEN /\ pc' = "done"
                   /\ outcome' = "fetch error"
                   /\ UNCHANGED <<parsed, st, idx, loaded>>
              ELSE /\ parsed' = parsePage(res.body, dates, 1, <<>>)
                   /\ loaded' = [st |-> ld.st, err |-> ld.err, called |-> TRUE]
                   /\ st' = ld.st
                   /\ idx' = 1
                   /\ pc' = "loop"
                   /\ UNCHANGED outcome
    /\ crash' = NoCrash
    /\ UNCHANGED <<now, fs, prev, pure>>

\* The loop iteration that leaves the day out of the State when its post
\* failed.
DaySkippingFailedPost(ok) ==
    /\ pc = "loop"
    /\ idx <= Len(parsed)
    /\ LET day == parsed[idx]
           i == findDay(st, day.Date)
           diff == compareDay(st[i], day)
           post(isUpdate, more) ==
               IF creds
               THEN sent' = Append(sent, [date |-> day.Date,
                                          msg |-> postSchedule(day, isUpdate, more),
                                          ok |-> ok])
               ELSE ok /\ UNCHANGED sent
           keep == IF creds /\ ~ok THEN UNCHANGED st ELSE st' = upsertDay(st, day)
       IN  IF i = 0
           THEN post(FALSE, FALSE) /\ keep
           ELSE IF diff.changed
           THEN post(TRUE, diff.more) /\ keep
           ELSE ok /\ UNCHANGED <<sent, st>>
    /\ idx' = idx + 1
    /\ UNCHANGED <<now, fs, pc, refs, creds, parsed, fetch, loaded, file0, outcome,
                   prev, crash, pure>>

\* main, lines 423-452: one iteration of the loop over the parsed days; ok is
\* whether sendTelegram succeeds when it is called.
Day(ok) ==
    /\ pc = "loop"
    /\ idx <= Len(parsed)
    /\ LET day == parsed[idx]
           i == findDay(st, day.Date)
           diff == compareDay(st[i], day)
           post(isUpdate, more) ==
               IF creds
               THEN sent' = Append(sent, [date |-> day.Date,
                                          msg |-> postSchedule(day, isUpdate, more),
                                          ok |-> ok])
               ELSE ok /\ UNCHANGED sent
       IN  IF i = 0
           THEN post(FALSE, FALSE) /\ st' = upsertDay(st, day)
           ELSE IF diff.changed
           THEN post(TRUE, diff.more) /\ st' = upsertDay(st, day)
           ELSE ok /\ UNCHANGED <<sent, st>>
    /\ idx' = idx + 1
    /\ UNCHANGED <<now, fs, pc, refs, creds, parsed, fetch, loaded, file0, outcome,
                   prev, crash, pure>>

\* main, line 454, and saveState, lines 655-657: prune, then os.MkdirAll
PruneAndMkdir(ok) ==
    /\ pc = "loop"
    /\ idx > Len(parsed)
    /\ st' = keepLastTwo(st, refs)
    /\ IF ok THEN pc' = "open" /\ UNCHANGED outcome
       ELSE pc' = "done" /\ outcome' = "save error"
    /\ UNCHANGED <<now, fs, refs, creds, parsed, idx, sent, fetch, loaded, file0,
                   prev, crash, pure>>

\* saveState, lines 659-660: os.WriteFile opens the temporary file with
\* O_CREATE|O_TRUNC
WriteOpen(ok) ==
    /\ pc = "open"
    /\ IF ok
       THEN /\ fs' = [fs EXCEPT ![TmpPath(StatePath)] =
                          Written(Marshal(st), 0)]
            /\ pc' = "writing"
            /\ UNCHANGED outcome
       ELSE /\ pc' = "done"
            /\ outcome' = "save error"
            /\ UNCHANGED fs
    /\ UNCHANGED <<now, refs, creds, parsed, st, idx, sent, fetch, loaded, file0,
                   prev, crash, pure>>

\* saveState, line 660: os.WriteFile writes the next piece of the document
WriteChunk(ok) ==
    /\ pc = "writing"
    /\ LET tmp == TmpPath(StatePath)
       IN  IF ok
           THEN /\ fs' = [fs EXCEPT ![tmp] = Written(Marshal(st), fs[tmp].written + 1)]
                /\ pc' = IF fs[tmp].written + 1 = WriteChunks THEN "rename" ELSE "writing"
                /\ UNCHANGED outcome
           ELSE /\ pc' = "done"
                /\ outcome' = "save error"
                /\ UNCHANGED fs
    /\ UNCHANGED <<now, refs, creds, parsed, st, idx, sent, fetch, loaded, file0,
                   prev, crash, pure>>

\* os.Rename(from, to): replaces `to` by `from` in one step
RenameFile(files, from, to) ==
    IF from = to THEN files
    ELSE [p \in DOMAIN files |-> IF p = to THEN files[from]
                                 ELSE IF p = from THEN NoFile ELSE files[p]]

\* saveState, line 663
Rename(ok) ==
    /\ pc = "rename"
    /\ IF ok
       THEN /\ fs' = RenameFile(fs, TmpPath(StatePath), StatePath)
            /\ outcome' = "saved"
       ELSE /\ outcome' = "save error"
            /\ UNCHANGED fs
    /\ pc' = "done"
    /\ UNCHANGED <<now, refs, creds, parsed, st, idx, sent, fetch, loaded, file0,
                   prev, crash, pure>>

\* main returns and the process exits.
Exit ==
    /\ pc = "done"
    /\ pc' = "idle"
    /\ prev' = IF loaded.st = <<>> /\ Len(parsed) = 1 /\ outcome = "saved"
                THEN [refs |-> refs, parsed |-> parsed]
                ELSE NoPrev
    /\ crash' = NoCrash
    /\ ResetRun
    /\ UNCHANGED <<now, fs, file0, pure>>

\* The process is killed in the middle of a run.
Crash ==
    /\ pc \in {"loop", "open", "writing", "rename"}
    /\ pc' = "idle"
    /\ prev' = NoPrev
    /\ crash' = [at |-> pc, file0 |-> file0]
    /\ ResetRun
    /\ UNCHANGED <<now, fs, file0, pure>>

\* A day passes between two runs.
Tick ==
    /\ pc = "idle"
    /\ now.day < FirstDay + MaxDay
    /\ now' = [now EXCEPT !.day = @ + 1]
    /\ UNCHANGED <<fs, pc, refs, creds, parsed, st, idx, sent, fetch, loaded, file0,
                   outcome, prev, crash, pure>>

Next ==
    \/ \E env \in Envs(now), cfg \in Credentials : Start(env, cfg.token, cfg.chat)
    \/ \E ok \in BOOLEAN : Day(ok)
    \/ \E ok \in BOOLEAN : PruneAndMkdir(ok)
    \/ \E ok \in BOOLEAN : WriteOpen(ok)
    \/ \E ok \in BOOLEAN : WriteChunk(ok)
    \/ \E ok \in BOOLEAN : Rename(ok)
    \/ Exit
    \/ Crash
    \/ Tick

Spec == Init /\ [][Next]_vars

\* ------------------------------------------------------ compareDay alone
\* Day records compareDay may be handed: each tracked group missing or with
\* one of two texts and one of three durations, and possibly a group that is
\* not tracked.
CompareTexts == {NoOutage, normalizeText(FragDay)}
CompareMinutes == {0 - 60, 0, 150}
CompareGroups ==
    {[Text |-> t, Minutes |-> n] : t \in CompareTexts, n \in CompareMinutes}
CompareDays ==
    UNION {[K -> CompareGroups] : K \in SUBSET {groupPower, groupWater, "Hrupa 1.1"}}

InitCompare ==
    /\ Installed(NoFile)
    /\ \E o \in CompareDays, c \in CompareDays :
         cmp = [NotCompared EXCEPT !.old = [Date |-> <<2025, 3, 1>>, Groups |-> o],
                                   !.cur = [Date |-> <<2025, 3, 1>>, Groups |-> c]]
    /\ NoOverlap

Compare ==
    /\ ~cmp.done
    /\ cmp' = [cmp EXCEPT !.done = TRUE, !.out = compareDay(cmp.old, cmp.cur)]
    /\ UNCHANGED <<run, overlap>>

SpecCompare == InitCompare /\ [][Compare]_vars

\* ------------------------------------------- the reference dates by hour
\* The process is started once, at any hour of a day the clock may show.
InitClock ==
    /\ \E f \in InitFiles, d \in FirstDay..(FirstDay + MaxDay), h \in 0..23 :
          InstalledAt(f, [day |-> d, hour |-> h])
    /\ cmp = NotCompared
    /\ NoOverlap

NextClock == \E env \in Envs(now), cfg \in Credentials : Start(env, cfg.token, cfg.chat)

SpecClock == InitClock /\ [][NextClock]_vars

\* ------------------------------------------------ overlapping invocations
\* Two processes run main against the same state file.  Fetching, parsing,
\* the loop and the pruning touch nothing the processes share, so they are
\* taken together with the state load; the steps of saveState on the shared
\* directory are taken one system call at a time: open, write, rename.  No
\* system call fails for a reason of its own.

\* The content without its first n bytes.
RECURSIVE DropBytes(_, _)
DropBytes(content, n) ==
    IF Len(content) = 0 \/ n = 0 THEN content
    ELSE LET seg == content[1]
         IN  IF n >= seg.to - seg.from THEN DropBytes(Tail(content), n - (seg.to - seg.from))
             ELSE <<[seg EXCEPT !.from = seg.from + n]>> \o Tail(content)

\* write(2) of a State's bytes at offset 0: the bytes replace those at the
\* same place and the file keeps what it had beyond them.
WriteAt0(content, state) ==
    BytesOf(state) \o DropBytes(content, MarshalLen(state))

\* The content is the whole text of one State and nothing else.
Whole(content) == Len(content) = 1 /\ content = BytesOf(content[1].st)

\* loadState on a path of the shared directory.  A missing file is a read
\* error; an empty file, and a document followed by the end of a longer one,
\* are syntax errors that leave the State empty.
loadStateAt(d, path) ==
    LET i == d.dir[path]
    IN  IF i = Absent THEN loadState(NoFile)
        ELSE IF Whole(d.ino[i]) THEN Unmarshal(Marshal(d.ino[i][1].st))
        ELSE [st |-> <<>>, err |-> TRUE]

\* The pages the two invocations may fetch: a section for today.
OverlapPages ==
    {<<[title |-> FormatTitle(datesToCheck(now)[1]), entries |-> e]>> :
        e \in SectionBodies \ {<<>>}}

\* The state file the first of them may find: none, or one an earlier run
\* wrote.
OverlapFiles ==
    {f \in InitFiles : f.exists => f.doc = Marshal(Unmarshal(f.doc).st)}

InitOverlap ==
    /\ Installed(NoFile)
    /\ cmp = NotCompared
    /\ procs = [p \in Procs |-> NoProc]
    /\ renames = <<>>
    /\ \E f \in OverlapFiles :
          disk = IF f.exists
                 THEN [NoDisk EXCEPT !.dir[StatePath] = 0,
                                     !.ino[0] = BytesOf(Unmarshal(f.doc).st)]
                 ELSE NoDisk

\* main, lines 377-454: parse the fetched page, load the state, run the loop
\* and prune; the document is what saveState will marshal.
ProcLoad(p, body) ==
    /\ procs[p].pc = "idle"
    /\ LET dates == datesToCheck(now)
           days == parsePage(body, dates, 1, <<>>)
           ld == loadStateAt(disk, StatePath)
           state == keepLastTwo(Merged(ld.st, days, 1), dates)
       IN  procs' = [procs EXCEPT ![p].pc = "open", ![p].st = state]
    /\ UNCHANGED <<run, cmp, disk, renames>>

\* saveState, line 660: os.WriteFile opens path + ".tmp" with
\* O_WRONLY|O_CREATE|O_TRUNC: the file of that name is emptied, or a new one
\* is created when there is none.
ProcOpen(p) ==
    /\ procs[p].pc = "open"
    /\ LET tmp == TmpPath(StatePath)
           i == IF disk.dir[tmp] = Absent THEN p ELSE disk.dir[tmp]
       IN  /\ disk' = [disk EXCEPT !.dir[tmp] = i, !.ino[i] = <<>>]
           /\ procs' = [procs EXCEPT ![p].pc = "writing", ![p].fd = i]
    /\ UNCHANGED <<run, cmp, renames>>

\* saveState, lines 659-660: os.WriteFile hands the marshalled State to one
\* write at the start of the file it opened, and closes the file.
ProcWrite(p) ==
    /\ procs[p].pc = "writing"
    /\ disk' = [disk EXCEPT !.ino[procs[p].fd] = WriteAt0(@, procs[p].st)]
    /\ procs' = [procs EXCEPT ![p].pc = "rename"]
    /\ UNCHANGED <<run, cmp, renames>>

\* saveState, line 663: os.Rename(tmp, path) fails when nothing is named tmp.
ProcRename(p) ==
    /\ procs[p].pc = "rename"
    /\ LET tmp == TmpPath(StatePath)
       IN  IF disk.dir[tmp] = Absent
           THEN /\ procs' = [procs EXCEPT ![p].pc = "done", ![p].outcome = "save error"]
                /\ UNCHANGED <<disk, renames>>
           ELSE /\ disk' = [disk EXCEPT !.dir[StatePath] = disk.dir[tmp],
                                        !.dir[tmp] = Absent]
                /\ procs' = [procs EXCEPT ![p].pc = "done", ![p].outcome = "saved"]
                /\ renames' = Append(renames, p)
    /\ UNCHANGED <<run, cmp>>

NextOverlap ==
    \/ \E p \in Procs, body \in OverlapPages : ProcLoad(p, body)
    \/ \E p \in Procs : ProcOpen(p)
    \/ \E p \in Procs : ProcWrite(p)
    \/ \E p \in Procs : ProcRename(p)

SpecOverlap == InitOverlap /\ [][NextOverlap]_vars

\* ------------------------------------------------------------ properties
\* The run got past the fetch and the state load and has returned.
RunDone == pc = "done" /\ loaded.called
\* The state file was replaced by this run's State.
Saved == pc = "done" /\ outcome = "saved"
\* "DD.MM" of a "yyyy-mm-dd" date
DayMonth(date) == <<date[3], date[2]>>
\* The title heads of the messages this run handed to sendTelegram for a date
HeadsFor(date) == {sent[k].msg.title.head : k \in {j \in 1..Len(sent) : sent[j].date = date}}
PostsFor(date) == {k \in 1..Len(sent) : sent[k].date = date}
\* The record the loaded State holds for a date: the first one, 0 if none
LoadedAt(date) ==
    IF \E i \in 1..Len(loaded.st) : loaded.st[i].Date = date
    THEN CHOOSE i \in 1..Len(loaded.st) :
            /\ loaded.st[i].Date = date
            /\ \A j \in 1..(i - 1) : loaded.st[j].Date # date
    ELSE 0
\* The calendar dates from the day before today to tomorrow
Window ==
    {FormatISO([day |-> refs[1].day + k, hour |-> 0]) : k \in {0 - 1, 0, 1}}
\* The dates of the day records a file holds
FileDates(f) == {f.doc.days[i].date : i \in 1..Len(f.doc.days)}

\* C1: starting from an empty prior state, a run that parsed one day sends
\* exactly one message, titled as a first announcement for that day, and
\* persists exactly that day; the following run with the same reference dates
\* and the same parsed content sends nothing and leaves the state file as it
\* was.
C1_FirstRunThenQuiet ==
    RunDone =>
        /\ (loaded.st = <<>> /\ Len(parsed) = 1) =>
              /\ creds => /\ Len(sent) = 1
                          /\ sent[1].msg.title =
                                [head |-> TitleNew, dm |-> DayMonth(parsed[1].Date)]
              /\ Saved => loadState(fs[StatePath]) = [st |-> parsed, err |-> FALSE]
        /\ (prev # NoPrev /\ prev.refs = refs /\ prev.parsed = parsed) =>
              /\ sent = <<>>
              /\ fs[StatePath] = file0

\* C1 witness: the second of two such runs has completed, with credentials.
C1_Witness ==
    /\ Saved /\ creds
    /\ prev # NoPrev /\ prev.refs = refs /\ prev.parsed = parsed
    /\ sent = <<>>

\* C2: with both credentials set, a parsed day whose date the loaded State
\* lacks is posted with the first-announcement title; one the State holds is
\* posted with the bad-update title when compareDay reports changed and more,
\* with the good-update title when it reports changed and not more, and is
\* not posted when it reports unchanged.
C2_TitleByClass ==
    creds =>
        \A k \in 1..(idx - 1) :
            LET day == parsed[k]
                i == LoadedAt(day.Date)
                diff == compareDay(loaded.st[i], day)
                title(head) == [head |-> head, dm |-> DayMonth(day.Date)]
                only(head) ==
                    /\ Cardinality(PostsFor(day.Date)) = 1
                    /\ \A j \in PostsFor(day.Date) : sent[j].msg.title = title(head)
            IN  IF i = 0 THEN only(TitleNew)
                ELSE IF diff.changed /\ diff.more THEN only(TitleBad)
                ELSE IF diff.changed THEN only(TitleGood)
                ELSE PostsFor(day.Date) = {}

\* C2 witness: a run posted a bad update for one day and a first announcement
\* for the other.
C2_Witness ==
    /\ RunDone /\ creds /\ Len(parsed) = 2
    /\ HeadsFor(parsed[1].Date) = {TitleBad}
    /\ HeadsFor(parsed[2].Date) = {TitleNew}

\* A tracked group is in exactly one of the two records, or in both with
\* different text.
Differs(old, cur, g) ==
    \/ (g \in DOMAIN old.Groups) # (g \in DOMAIN cur.Groups)
    \/ /\ g \in DOMAIN old.Groups
       /\ g \in DOMAIN cur.Groups
       /\ old.Groups[g].Text # cur.Groups[g].Text
\* The duration a record gives for a group, 0 when the group is missing
MinutesOf(day, g) == IF g \in DOMAIN day.Groups THEN day.Groups[g].Minutes ELSE 0

\* C3: compareDay reports changed exactly when a tracked group is in one
\* record only or has different text in the two; when every tracked group
\* of either record is in both with the same text it reports neither changed
\* nor more, whatever the durations.
C3_ChangedIffTextOrPresence ==
    cmp.done =>
        /\ cmp.out.changed <=> \E g \in Groups : Differs(cmp.old, cmp.cur, g)
        /\ (\A g \in Groups : ~Differs(cmp.old, cmp.cur, g)) =>
              cmp.out = [changed |-> FALSE, more |-> FALSE]

\* C3 witness: a group kept its text and got a longer duration, and compareDay
\* reported no change.
C3_Witness ==
    /\ cmp.done
    /\ ~cmp.out.changed
    /\ groupPower \in DOMAIN cmp.old.Groups /\ groupPower \in DOMAIN cmp.cur.Groups
    /\ cmp.old.Groups[groupPower].Text = cmp.cur.Groups[groupPower].Text
    /\ cmp.old.Groups[groupPower].Minutes < cmp.cur.Groups[groupPower].Minutes

\* C4: compareDay reports more exactly when a tracked group that counts as
\* changed has a current duration greater than its previous one, a missing
\* group counting as 0 minutes; more is never reported without changed.
C4_MoreIffChangedGroupGrew ==
    cmp.done =>
        /\ cmp.out.more <=>
              \E g \in Groups : /\ Differs(cmp.old, cmp.cur, g)
                                /\ MinutesOf(cmp.cur, g) > MinutesOf(cmp.old, g)
        /\ cmp.out.more => cmp.out.changed

\* C4 witness: a changed day that is not worse, its changed group having
\* a shorter duration than before.
C4_Witness ==
    /\ cmp.done
    /\ cmp.out.changed /\ ~cmp.out.more
    /\ Differs(cmp.old, cmp.cur, groupPower)
    /\ groupPower \in DOMAIN cmp.old.Groups /\ groupPower \in DOMAIN cmp.cur.Groups
    /\ cmp.cur.Groups[groupPower].Minutes < cmp.old.Groups[groupPower].Minutes

\* C5: the State a run saves holds only days dated yesterday, today or
\* tomorrow; every day of the loaded State with one of these dates is still
\* in it, and the file a successful save leaves is that State.
C5_PrunedToWindow ==
    pc \in {"open", "writing", "rename", "done"} /\ loaded.called =>
        /\ \A i \in 1..Len(st) : st[i].Date \in Window
        /\ \A i \in 1..Len(loaded.st) :
              loaded.st[i].Date \in Window =>
                  \E j \in 1..Len(st) : st[j].Date = loaded.st[i].Date
        /\ Saved => /\ fs[StatePath] = FileOf(Marshal(st))
                    /\ FileDates(fs[StatePath]) \subseteq Window

\* C5 witness: a run saved after loading a day dated two days before today,
\* which it dropped, and one dated yesterday, which it kept.
C5_Witness ==
    /\ Saved
    /\ \E i \in 1..Len(loaded.st) :
          /\ loaded.st[i].Date = FormatISO([day |-> refs[1].day - 2, hour |-> 0])
          /\ loaded.st[i].Date \notin FileDates(fs[StatePath])
    /\ FormatISO([day |-> refs[1].day - 1, hour |-> 0]) \in FileDates(fs[StatePath])

\* C6: the state file a run writes holds day records for at most two
\* distinct dates.
C6_AtMostTwoDates ==
    Saved => Cardinality(FileDates(fs[StatePath])) <= 2

\* C7: when the fetch fails the run ends at once: nothing is sent, loadState
\* is not called and the state file stays as it was.
C7_FetchFailureTouchesNothing ==
    fetch # "" =>
        /\ pc = "done"
        /\ outcome = "fetch error"
        /\ sent = <<>>
        /\ ~loaded.called
        /\ parsed = <<>>
        /\ fs[StatePath] = file0

\* C7 witness: the API answered without rawHtml while a state file with days
\* existed.
C7_Witness ==
    /\ fetch = "no rawHtml"
    /\ pc = "done"
    /\ Complete(file0) /\ Len(file0.doc.days) > 0

\* The parsed day k is new or changed with respect to the loaded State.
NeedsPost(k) ==
    \/ LoadedAt(parsed[k].Date) = 0
    \/ compareDay(loaded.st[LoadedAt(parsed[k].Date)], parsed[k]).changed

\* C8: the state a run saves is determined by the loaded State, the parsed
\* days and the reference dates, whatever happened to the posts; and with
\* credentials every new or changed day gets its post attempt, also after a
\* failed one.
C8_DeliveryDoesNotDecideState ==
    /\ Saved => fs[StatePath] = FileOf(Marshal(keepLastTwo(Merged(loaded.st, parsed, 1), refs)))
    /\ RunDone /\ creds =>
          \A k \in 1..Len(parsed) : NeedsPost(k) => PostsFor(parsed[k].Date) # {}

\* C8 witness: the post for the first day failed, the second day was posted
\* and the state was saved with both days.
C8_Witness ==
    /\ Saved /\ creds
    /\ Len(sent) = 2 /\ ~sent[1].ok
    /\ sent[1].date = parsed[1].Date /\ sent[2].date = parsed[2].Date
    /\ {parsed[1].Date, parsed[2].Date} \subseteq FileDates(fs[StatePath])

\* C9: until the rename the state file is the one the run found, so a kill
\* at any step before it leaves the previous state to the next loadState; and
\* the target path never holds part of a document.
C9_SaveIsAtomic ==
    /\ pc \in {"loop", "open", "writing", "rename"} => fs[StatePath] = file0
    /\ crash.at # "" => /\ fs[StatePath] = crash.file0
                        /\ loadState(fs[StatePath]) = loadState(crash.file0)
    /\ fs[StatePath].exists => Complete(fs[StatePath])

\* C9 witness: the process was killed after writing part of the temporary
\* file, and the state file still holds the days it held before.
C9_Witness ==
    /\ pc = "idle" /\ crash.at = "writing"
    /\ fs[TmpPath(StatePath)].exists /\ ~Complete(fs[TmpPath(StatePath)])
    /\ Complete(fs[StatePath]) /\ Len(fs[StatePath].doc.days) > 0
    /\ ~loadState(fs[StatePath]).err

\* C10: when loadState returns an error the run goes on with an empty State:
\* every parsed day is announced as new and the saved state holds the parsed
\* days only.
C10_LoadErrorMeansEmptyState ==
    RunDone /\ loaded.err =>
        /\ loaded.st = <<>>
        /\ creds => /\ Len(sent) = Len(parsed)
                    /\ \A k \in 1..Len(sent) : sent[k].msg.title.head = TitleNew
        /\ Saved => loadState(fs[StatePath]) = [st |-> parsed, err |-> FALSE]

\* C11: the minutes of every group record parsePage produced, and of every
\* group record in the state file a run wrote, is a non-negative integer: 0
\* when the text carries no "z HH:MM do HH:MM" range, also when the range ends
\* at an earlier time of day than it starts.
C11_MinutesNonNegative ==
    /\ \A k \in 1..Len(parsed) : \A g \in DOMAIN parsed[k].Groups :
          /\ parsed[k].Groups[g].Minutes >= 0
          /\ RangeAt(parsed[k].Groups[g].Text) = {} => parsed[k].Groups[g].Minutes = 0
    /\ Saved =>
          \A i \in 1..Len(fs[StatePath].doc.days) :
              \A g \in DOMAIN fs[StatePath].doc.days[i].groups :
                  /\ fs[StatePath].doc.days[i].groups[g].minutes.num
                  /\ fs[StatePath].doc.days[i].groups[g].minutes.v >= 0

\* No two day records of a State carry the same date.
DatesUnique(state) ==
    \A i \in 1..Len(state) : \A j \in 1..Len(state) :
        state[i].Date = state[j].Date => i = j
\* The step of the loop at lines 423-452 for the parsed day idx.
LoopStep == pc = "loop" /\ idx <= Len(parsed) /\ idx' = idx + 1
\* What a loop step may do to the State: nothing, replace the one record of
\* the day's date where it stands, or append the day when no record has its
\* date.
KeptReplacedOrAppended ==
    LET day == parsed[idx]
        at == {i \in 1..Len(st) : st[i].Date = day.Date}
    IN  \/ st' = st
        \/ /\ at # {}
           /\ Len(st') = Len(st)
           /\ \A i \in 1..Len(st) :
                 st'[i] = IF i = Minimum(at) THEN day ELSE st[i]
        \/ /\ at = {}
           /\ Len(st') = Len(st) + 1
           /\ st'[Len(st')] = day
           /\ \A i \in 1..Len(st) : st'[i] = st[i]

\* C13: over any sequence of runs that do not overlap, neither the State a
\* run holds nor the state file has two day records with the same date; a
\* loop step replaces the record of the day's date in place or appends the
\* day when the date is absent, and leaves every other record as it was.
C13_DaysUniqueByDate ==
    /\ [](DatesUnique(st) /\ DatesUnique(loadState(fs[StatePath]).st))
    /\ [][LoopStep => KeptReplacedOrAppended]_vars

\* C13 witness: a run that loaded two days saved after replacing the first
\* by a parsed day of the same date and other content; the file still has one
\* record per date and the second record as loaded.
C13_Witness ==
    /\ Saved
    /\ Len(loaded.st) = 2 /\ Len(parsed) = 1 /\ Len(st) = 2
    /\ loaded.st[1].Date = parsed[1].Date
    /\ loaded.st[1] # parsed[1]
    /\ loadState(fs[StatePath]).st = <<parsed[1], loaded.st[2]>>

\* C14: whatever the hour of the invocation, the first reference date of a
\* run is the calendar date Europe/Kyiv shows at that instant and the second
\* is the day after it, also in the hours after local midnight.
C14_TodayIsKyivDate ==
    refs # <<>> =>
        /\ FormatISO(refs[1]) = FormatISO(now)
        /\ FormatISO(refs[2]) = FormatISO(AddDays(now, 1))

\* C12: when two invocations overlap on the same state file, in every
\* interleaving of their load, write and rename steps both saves return
\* without error, the state file never holds part of a document or pieces of
\* two, and once both have returned it holds the whole document of the
\* invocation that renamed last.
C12_LastWriterWins ==
    /\ \A p \in Procs : procs[p].pc = "done" => procs[p].outcome = "saved"
    /\ disk.dir[StatePath] # Absent => Whole(disk.ino[disk.dir[StatePath]])
    /\ (\A p \in Procs : procs[p].pc = "done") =>
          /\ renames # <<>>
          /\ disk.ino[disk.dir[StatePath]] = BytesOf(procs[renames[Len(renames)]].st)

====
